---- MODULE Spec2Model ----
(***************************************************************************)
(* A model of the "park" pipeline of sharework-cn/smtools                  *)
(* (src/common/sources/park/park.go, the revision at lines 209-584, with   *)
(* the builder that options.go repeats).                                   *)
(*                                                                         *)
(* The park owns a configuration, a status and the counters.  Start spawns *)
(* one lane goroutine per configured channel; each lane builds one stage   *)
(* executor goroutine per configured function (tail first) and then feeds  *)
(* the items it receives from the shared data channel to its first stage.  *)
(*                                                                         *)
(* Reading of the places where the revision does not compile:              *)
(*  - newChannel's  l := len(p.conf.numChans)  is the number of configured *)
(*    functions, as in the other revisions (it indexes the function list); *)
(*  - start is called as start(id, f, next): id is the lane's id, and the  *)
(*    error channel errc, which no caller passes, is the park's failure    *)
(*    channel fc;                                                          *)
(*  - "v -> errc" is the send  errc <- v.                                  *)
(*                                                                         *)
(* Beside the park the module models the event server of options.go, the   *)
(* Tourist of tourist.go, the array iterator (unnamed/part_002), the       *)
(* function map (unnamed/part_003) and the SM4 tool (unnamed/part_000).    *)
(***************************************************************************)
EXTENDS Integers, Sequences, FiniteSets, TLC

(* ------------------------------ bounds -------------------------------- *)
\* the longest input sequence the producer submits
MaxItems == 2
\* the largest lane count a modelled Start spawns
MaxLanes == 2
\* the longest stage list a modelled Start runs
MaxStages == 2
\* how many Start calls are modelled
MaxStarts == 2
\* under the lifecycle specification: the longest input sequence and the
\* largest lane count configured
LifeItems == 1
LifeLanes == 1
\* the longest option list handed to NewParkConf
MaxOpts == 2
\* the largest counter value and total of a park whose methods are called
MaxCount == 1
\* how many events are put on the event server's queue
MaxEvents == 2
\* Tourist instances made by New besides the package-level one, and the
\* longest list of names a checker returns
MaxInstances == 1
MaxNames == 2
\* the longest slice iterated over, the goroutines that call Next on one
\* iterator, and the Next calls followed
MaxData == 2
MaxCallers == 2
MaxCalls == 4
\* the registrations followed on a function map
MaxRegs == 3
\* the SM4 tool: the bytes of an input after its first 64, the loop
\* iterations recorded, and the bytes of the output kept
MaxTail == 2
MaxRounds == 2
MaxOut == 80
\* the longest input of a run that fills the queues: 8 in the failure channel,
\* 10 in each of two queues, one held by each of the lane and its two stages
FloodItems == 31

(* ------------------------- program constants -------------------------- *)
MaxChannels == 256
MaxFunctions == 64
MaxListeners == 256
\* make(chan Tour[T], 8): the success and the failure channel
SinkCap == 8
\* make(chan *Tour[T], 10): a stage executor's queue
QueueCap == 10
\* make(chan TourEvent[T], ChannelCache): the event server's queue (options.go:88)
ChannelCache == 8
\* the largest value of arrayIterator.idx, an int32 (part_002:39)
MaxInt32 == 2147483647
\* MaxFunctions of the fmap package (part_003:6); the park has its own
FmapMaxFunctions == 1024
\* the largest int16, the type of fidx.i (part_003:24)
MaxInt16 == 32767
\* bufferSize of the SM4 tool (part_000:29)
bufferSize == 4096
\* the key length main asks for (part_000:71), the block size of SM4
BlockSize == 16
\* len(pb): the hex digits of an SM3 digest of 32 bytes (part_000:80)
PrefixLen == 64

VARIABLES
    conf,       \* Park.conf: [numChans, funcs, listeners]
    status,     \* Park.status
    total,      \* Park.total, -1 = unpredictable
    succeeds,   \* Park.succeeds
    failures,   \* Park.failures
    sc,         \* the success channel Start makes (buffer content)
    fc,         \* the failure channel Start makes (buffer content)
    calls,      \* the Start calls in progress: each [pc, cnt, eventq]
    lanes,      \* the lane goroutines newChannel spawned, with their executors
    tours,      \* the Tour objects, by item id: [t, err]
    input,      \* ids of the items the producer has still to send on the data channel
    closed,     \* the producer closed the data channel
    notified,   \* listener invocations made so far
    panicked,   \* a goroutine called a nil function: the process is gone
    running,    \* history: Start was called and Reset has not been since
    built,      \* the last NewParkConf call: [optfs, conf, err]
    es,         \* the EventServer of options.go and its dispatch goroutine
    tourists,   \* the Tourist instances of tourist.go, by instance
    it,         \* an arrayIterator of the utils package and its callers
    fmap,       \* a Fmap of the fmap package, with the calls made on it
    tool        \* a run of the SM4 command line tool

vars == <<conf, status, total, succeeds, failures, sc, fc, calls, lanes, tours,
          input, closed, notified, panicked, running, built, es, tourists, it,
          fmap, tool>>

parkVars == <<conf, status, total, succeeds, failures, sc, fc>>
pipeVars == <<calls, lanes, tours, input, closed, notified, panicked>>
\* the park with its goroutines and its builder
parkAll == <<parkVars, pipeVars, running, built>>
\* the components that are none of the park's
otherVars == <<es, tourists, it, fmap, tool>>

(* ------------------------------ values -------------------------------- *)
NoConf == [numChans |-> -1, funcs |-> <<>>, listeners |-> <<>>]
NoItem == 0

Rep(x, n) == [k \in 1..n |-> x]

\* Status (park.go:345-351)
ParkInitial == "Initial"
ParkOpen == "Open"
ParkPaused == "Paused"
ParkClosed == "Closed"
ParkAborted == "Aborted"
Statuses == {ParkInitial, ParkOpen, ParkPaused, ParkClosed, ParkAborted}

\* the errors (park.go:226-230)
ErrLimited == "ErrLimited"
ErrState == "ErrState"
ErrNotReady == "ErrNotReady"

\* no event server yet: Park.es is nil (options.go:195)
NoEventServer ==
    [pc |-> "none", listeners |-> <<>>, eq |-> <<>>, eqClosed |-> FALSE,
     eqx |-> FALSE, sent |-> <<>>, log |-> <<>>, exited |-> FALSE]

\* the zero TourEvent, which a receive from the closed event queue yields
ZeroEvent == 0

\* Status and TourStatus of tourist.go (55-73)
TouristInitial == "TouristInitial"
TouristCheckedIn == "TouristCheckedIn"
TouristStarted == "TouristStarted"
TouristPaused == "TouristPaused"
TourPending == "TourPending"

\* NewTouristOptions (tourist.go:17-28) with the options given: the defaults,
\* or WithConcurrency(v) applied to them
NewTouristOptions(v) == [concurrency |-> v, timeoutMinutes |-> 5]
DefaultTouristOptions == NewTouristOptions(1)

\* the empty map make(map[string]*Tour, 16)
NoWorkloads == [s \in {} |-> TourPending]

\* New (tourist.go:91-96): the default options, then Reset
NewTourist ==
    [options |-> DefaultTouristOptions, entrance |-> "", status |-> TouristInitial,
     total |-> 0, finished |-> 0, workloads |-> NoWorkloads]

\* the instances: 0 is the package-level t that init makes (tourist.go:85-89),
\* the others are made by New; last is the last call made and what it
\* returned (history)
Instances == 0..MaxInstances
NoCall == [op |-> "none", x |-> 0, names |-> <<>>, err |-> "nil", ret |-> "nil"]
NewTourists == [of |-> [x \in Instances |-> NewTourist], last |-> NoCall]

\* the callers of Next, and a caller that is in no call
Callers == 1..MaxCallers
NoCaller == [pc |-> "idle", x |-> 0]

\* NewArrayIterator(data) (part_002:56-62)
NewArrayIterator(data) ==
    [made |-> TRUE, idx |-> -1, data |-> data, base |-> 0,
     callers |-> [c \in Callers |-> NoCaller], log |-> <<>>, crashed |-> FALSE]

\* no iterator yet
NoIterator == [NewArrayIterator(<<>>) EXCEPT !.made = FALSE]

\* Ftype (part_003:13-20)
Func == 1
Supplier == 2
Consumer == 3
Collector == 4
ObjFunc == 5
ResultFunc == 6

ErrOverflowed == "ErrOverflowed"

\* a Fmap on which nothing was registered (the zero value, part_003:27-35).
\* A function is the number of the call that registered it; by and rets are
\* history: the operation that made each index entry, and what each call
\* followed returned
NewFmap ==
    [funcs |-> <<>>, suppliers |-> <<>>, consumers |-> <<>>, collectors |-> <<>>,
     ofs |-> <<>>, rfs |-> <<>>, idxs |-> <<>>, by |-> <<>>, rets |-> <<>>]

\* no run of the tool yet
NoTool == [pc |-> "none"]

\* the keys given to the tool: [id, len]
Keys == {[id |-> 1, len |-> BlockSize], [id |-> 2, len |-> BlockSize],
         [id |-> 1, len |-> BlockSize - 1]}

\* pb (part_000:77-80): the hex digits of the SM3 digest of the tag and the
\* key, taken as 64 digits that differ from key to key
Prefix(k) == [j \in 1..PrefixLen |-> 48 + k.id]

\* make([]byte, n, n)
Zeros(n) == [j \in 1..n |-> 0]

\* the first n elements of q, and q after them
Take(q, n) == SubSeq(q, 1, n)
Drop(q, n) == SubSeq(q, n + 1, Len(q))

\* Zero[E]() (part_002:12-15) and EOF (part_002:8-10)
ZeroElem == ""
EOF == "EOF"

(* ------------------------- the builder -------------------------------- *)
\* WithNumChannels (park.go:289-297)
WithNumChannelsTooLoose(c, v) ==
    IF v > MaxChannels + 1 \/ v < 0
    THEN [conf |-> c, err |-> ErrLimited]
    ELSE [conf |-> [c EXCEPT !.numChans = v], err |-> "nil"]

WithNumChannels(c, v) ==
    IF v > MaxChannels \/ v < 0
    THEN [conf |-> c, err |-> ErrLimited]
    ELSE [conf |-> [c EXCEPT !.numChans = v], err |-> "nil"]

\* WithFuncs (park.go:300-308)
WithFuncs(c, fs) ==
    IF Len(fs) > MaxFunctions
    THEN [conf |-> c, err |-> ErrLimited]
    ELSE [conf |-> [c EXCEPT !.funcs = fs], err |-> "nil"]

\* WithListeners (park.go:311-319)
WithListeners(c, ls) ==
    IF Len(ls) > MaxListeners
    THEN [conf |-> c, err |-> ErrLimited]
    ELSE [conf |-> [c EXCEPT !.listeners = ls], err |-> "nil"]

\* an Optf applied to the configuration being built
ApplyOptf(c, o) ==
    CASE o.opt = "NumChannels" -> WithNumChannels(c, o.n)
      [] o.opt = "Funcs" -> WithFuncs(c, o.list)
      [] o.opt = "Listeners" -> WithListeners(c, o.list)

\* the default options of NewParkConf (park.go:273-277)
DefaultConf ==
    [numChans |-> 1, funcs |-> Rep("nil", 4), listeners |-> Rep("nil", 2)]

\* the loop over the option functions (park.go:279-284)
RECURSIVE ApplyOptfs(_, _)
ApplyOptfs(c, optfs) ==
    IF optfs = <<>> THEN [conf |-> c, err |-> "nil"]
    ELSE LET r == ApplyOptf(c, Head(optfs))
         IN IF r.err # "nil" THEN [conf |-> NoConf, err |-> r.err]
            ELSE ApplyOptfs(r.conf, Tail(optfs))

\* NewParkConf (park.go:271-286)
NewParkConf(optfs) == ApplyOptfs(DefaultConf, optfs)

\* the option functions as values: the option and its argument
OptNumChannels(v) == [opt |-> "NumChannels", n |-> v, list |-> <<>>]
OptFuncs(fs) == [opt |-> "Funcs", n |-> 0, list |-> fs]
OptListeners(ls) == [opt |-> "Listeners", n |-> 0, list |-> ls]

(* ----------------------- inputs of the model -------------------------- *)
\* the stage functions the caller supplies: the ones of the specification's
\* scenario (double, addOne, failIfOver 20); each maps a payload to the
\* payload it leaves and the error it returns
Call(f, t) ==
    CASE f = "double" -> [t |-> 2 * t, err |-> "nil"]
      [] f = "addOne" -> [t |-> t + 1, err |-> "nil"]
      [] f = "failIfOver" -> [t |-> t, err |-> IF t > 20 THEN "ErrOver" ELSE "nil"]
      [] OTHER -> [t |-> t, err |-> "nil"]

\* payloads of submitted items: failIfOver passes the one and fails the other
Payloads == {1, 21}

\* stage lists: every list of at most MaxStages of these functions
StageFuncs == {"addOne", "failIfOver"}
StageLists == UNION {[1..m -> StageFuncs] : m \in 0..MaxStages}

\* the configurations the builder yields for at most lns lanes and a stage
\* list of lists: with a listener that returns, or, WithListeners left out,
\* with the default list of two nil listeners
Confs(lns, lists) ==
    {NewParkConf(<<OptNumChannels(n), OptFuncs(fs)>>).conf :
        n \in 1..lns, fs \in lists}
    \cup
    {NewParkConf(<<OptNumChannels(n), OptFuncs(fs), OptListeners(<<"L">>)>>).conf :
        n \in 1..lns, fs \in lists}

RunConfs == Confs(MaxLanes, StageLists)

\* under the lifecycle specification: no stage, one stage, two stages
LifeConfs == Confs(LifeLanes, {<<>>, <<"failIfOver">>, <<"addOne", "failIfOver">>})

\* totals handed to SetTotal: unknown, or the number of items to be submitted
Totals == {-1, Len(tours)}

(* --------------------------- the park --------------------------------- *)
\* a park that New made (park.go:367-372: NewParkConf, then Reset), with the
\* configuration c and the total n set while it is Initial, and not yet started
Park(c, n) ==
    /\ conf = c
    /\ status = ParkInitial
    /\ total = n
    /\ succeeds = 0
    /\ failures = 0
    /\ sc = <<>>
    /\ fc = <<>>
    /\ calls = <<>>
    /\ lanes = <<>>
    /\ notified = 0
    /\ panicked = FALSE
    /\ running = FALSE
    /\ built = [optfs |-> <<>>, conf |-> NewParkConf(<<>>).conf, err |-> "nil"]

\* the components that are none of the park's, not in use
Idle ==
    /\ fmap = NewFmap
    /\ tool = NoTool
    /\ es = NoEventServer
    /\ tourists = NewTourists
    /\ it = NoIterator

\* the producer's data: at most n items with payloads, not yet sent
Producer(n) ==
    /\ closed = FALSE
    /\ \E k \in 0..n :
          /\ input = [i \in 1..k |-> i]
          /\ tours \in [1..k -> [t : Payloads, err : {"nil"}]]

\* the park as New leaves it
Init == Producer(LifeItems) /\ Park(NewParkConf(<<>>).conf, -1) /\ Idle

\* a park configured for a run
InitRun ==
    /\ Idle
    /\ Producer(MaxItems)
    /\ \E c \in RunConfs : \E n \in Totals : Park(c, n)

\* what Park.SetTotal returns (park.go:391-395)
SetTotalErr == IF status # ParkInitial THEN ErrState ELSE "nil"

\* Park.SetTotal (park.go:390-396)
SetTotal(n) ==
    /\ ~panicked
    /\ total' = IF SetTotalErr = "nil" THEN n ELSE total
    /\ UNCHANGED <<conf, status, succeeds, failures, sc, fc, pipeVars, running, built, otherVars>>

\* what Park.SetConf returns (park.go:435-440)
SetConfErrLoose == "nil"

SetConfErr == IF status # ParkInitial THEN ErrState ELSE "nil"

\* Park.SetConf (park.go:434-441)
SetConf(c) ==
    /\ ~panicked
    /\ conf' = IF SetConfErr = "nil" THEN c ELSE conf
    /\ UNCHANGED <<status, total, succeeds, failures, sc, fc, pipeVars, running, built, otherVars>>

\* Park.Cancel (park.go:449-452); it returns nil
Cancel ==
    /\ ~panicked
    /\ status' = ParkAborted
    /\ UNCHANGED <<conf, total, succeeds, failures, sc, fc, pipeVars, running, built, otherVars>>

\* what Park.Reset returns (park.go:461-470, 474): its Cancel returns nil
ResetErr ==
    IF status = ParkPaused \/ status = ParkOpen THEN "nil"
    ELSE IF status = ParkClosed THEN ErrState
    ELSE "nil"

\* Park.Reset (park.go:460-475)
Reset ==
    /\ ~panicked
    /\ IF ResetErr = "nil"
       THEN /\ status' = ParkInitial
            /\ total' = -1
            /\ succeeds' = 0
            /\ running' = FALSE
       ELSE UNCHANGED <<status, total, succeeds, running>>
    /\ UNCHANGED <<conf, failures, sc, fc, pipeVars, built, otherVars>>

\* Park.Start up to its wait loop (park.go:483-494): the channels are made,
\* one lane goroutine is spawned per configured channel, and the caller
\* enters the loop on eventq.  No statement reads or writes the status.
Start ==
    /\ ~panicked
    /\ Len(calls) < MaxStarts
    /\ sc' = <<>>
    /\ fc' = <<>>
    /\ lanes' = lanes \o [k \in 1..conf.numChans |->
                    [id |-> k - 1, pc |-> "init", v |-> NoItem, uows |-> <<>>]]
    /\ calls' = Append(calls, [pc |-> "waitReady", cnt |-> 0,
                               chls |-> conf.numChans, eventq |-> <<>>])
    /\ running' = TRUE
    /\ UNCHANGED <<conf, status, total, succeeds, failures, tours, input, closed,
                   notified, panicked, built, otherVars>>

\* one turn of Start's wait loop (park.go:495-517): an event is received from
\* eventq, ready channels are counted, and Start returns once all are ready.
\* eventq is local to Start and handed to no goroutine, so nothing is ever
\* sent on it (or closes it): this step is never enabled, and Next leaves it out.
StartRecvEvent(k) ==
    /\ calls[k].pc = "waitReady"
    /\ calls[k].eventq # <<>>
    /\ LET e == Head(calls[k].eventq)
           cnt == IF e.typ = "ReChannel" /\ e.status = "RsReady"
                  THEN calls[k].cnt + 1 ELSE calls[k].cnt
       IN /\ calls' = [calls EXCEPT ![k].eventq = Tail(@), ![k].cnt = cnt,
                           ![k].pc = IF cnt >= calls[k].chls THEN "returned" ELSE @]
    /\ UNCHANGED <<parkVars, lanes, tours, input, closed, notified, panicked,
                   running, built, otherVars>>

(* ----------------------------- the producer --------------------------- *)
\* the caller closes the data channel once it has sent its items
CloseInput ==
    /\ ~panicked
    /\ input = <<>>
    /\ ~closed
    /\ closed' = TRUE
    /\ UNCHANGED <<parkVars, calls, lanes, tours, input, notified, panicked,
                   running, built, otherVars>>

(* ------------------------------- a lane ------------------------------- *)
\* Park.start (park.go:524-529, 554): the executor of stage j of a lane with
\* l stages: its queue and quit channel, the last stage index it compares
\* the id with, its function and the stage it forwards to (0: next is nil)
NewUow(id, fs, j) ==
    [queue |-> <<>>, quit |-> FALSE, pc |-> "select", v |-> NoItem,
     id |-> id, l |-> Len(fs) - 1, f |-> fs[j],
     next |-> IF j = Len(fs) THEN 0 ELSE j + 1]

\* newChannel's goroutine builds its executors, tail first (park.go:558-567)
LaneInit(i) ==
    /\ ~panicked
    /\ lanes[i].pc = "init"
    /\ lanes' = [lanes EXCEPT ![i].pc = "recv",
                    ![i].uows = [j \in 1..Len(conf.funcs) |->
                                    NewUow(lanes[i].id, conf.funcs, j)]]
    /\ UNCHANGED <<parkVars, calls, tours, input, closed, notified, panicked,
                   running, built, otherVars>>

\* case v, ok := <-queue with ok (park.go:571, 578-580): the item is taken
\* from the data channel; with no stage it is let go
LaneRecvPeek(i) ==
    /\ ~panicked
    /\ lanes[i].pc = "recv"
    /\ input # <<>>
    /\ input' = input
    /\ lanes' = IF Len(lanes[i].uows) > 0
                THEN [lanes EXCEPT ![i].pc = "send", ![i].v = Head(input)]
                ELSE lanes
    /\ UNCHANGED <<parkVars, calls, tours, closed, notified, panicked,
                   running, built, otherVars>>

LaneRecv(i) ==
    /\ ~panicked
    /\ lanes[i].pc = "recv"
    /\ input # <<>>
    /\ input' = Tail(input)
    /\ lanes' = IF Len(lanes[i].uows) > 0
                THEN [lanes EXCEPT ![i].pc = "send", ![i].v = Head(input)]
                ELSE lanes
    /\ UNCHANGED <<parkVars, calls, tours, closed, notified, panicked,
                   running, built, otherVars>>

\* (*uows[0]).queue <- v (park.go:579)
LaneSendUnbounded(i) ==
    /\ ~panicked
    /\ lanes[i].pc = "send"
    /\ lanes' = [lanes EXCEPT ![i].pc = "recv", ![i].v = NoItem,
                    ![i].uows[1].queue = Append(@, lanes[i].v)]
    /\ UNCHANGED <<parkVars, calls, tours, input, closed, notified, panicked,
                   running, built, otherVars>>

LaneSend(i) ==
    /\ ~panicked
    /\ lanes[i].pc = "send"
    /\ Len(lanes[i].uows[1].queue) < QueueCap
    /\ lanes' = [lanes EXCEPT ![i].pc = "recv", ![i].v = NoItem,
                    ![i].uows[1].queue = Append(@, lanes[i].v)]
    /\ UNCHANGED <<parkVars, calls, tours, input, closed, notified, panicked,
                   running, built, otherVars>>

\* case v, ok := <-queue with !ok (park.go:572-577): every quit channel is
\* closed and the lane returns
LaneClose(i) ==
    /\ ~panicked
    /\ lanes[i].pc = "recv"
    /\ input = <<>>
    /\ closed
    /\ lanes' = [lanes EXCEPT ![i].pc = "done",
                    ![i].uows = [j \in 1..Len(@) |-> [@[j] EXCEPT !.quit = TRUE]]]
    /\ UNCHANGED <<parkVars, calls, tours, input, closed, notified, panicked,
                   running, built, otherVars>>

(* -------------------------- a stage executor -------------------------- *)
\* the listener at which the loop over the listeners stops, if any: a nil one
\* (the call panics) or one that never returns ("B"); 0 if none
StopAt ==
    IF \E k \in 1..Len(conf.listeners) : conf.listeners[k] \in {"nil", "B"}
    THEN CHOOSE k \in 1..Len(conf.listeners) :
            /\ conf.listeners[k] \in {"nil", "B"}
            /\ \A m \in 1..(k - 1) : conf.listeners[m] \notin {"nil", "B"}
    ELSE 0

\* the executor u, in its counting block, calls a listener that never returns
ListenerBlocks(u) ==
    u.id >= u.l /\ StopAt # 0 /\ conf.listeners[StopAt] = "B"

\* where the executor goes after the counting block (park.go:548-550), unless
\* it stays in a listener
AfterTally(u) ==
    IF ListenerBlocks(u) THEN "listener"
    ELSE IF u.next # 0 THEN "next" ELSE "select"

\* the item the executor holds then: the one to forward, if any
HeldAfterTally(u, v) == IF ListenerBlocks(u) \/ u.next # 0 THEN v ELSE NoItem

\* the listeners called: all, or those up to a nil one, or those up to and
\* with one that never returns
CalledListeners ==
    IF StopAt = 0 THEN Len(conf.listeners)
    ELSE IF conf.listeners[StopAt] = "nil" THEN StopAt - 1
    ELSE StopAt

\* if id >= l { add 1 to succeeds; call every listener } (park.go:541-547)
Tally(u) ==
    IF u.id >= u.l
    THEN /\ succeeds' = succeeds + 1
         /\ notified' = notified + CalledListeners
         /\ panicked' = (StopAt # 0 /\ conf.listeners[StopAt] = "nil")
    ELSE UNCHANGED <<succeeds, notified, panicked>>

\* case <-quit: return (park.go:533-534)
ExecQuit(i, j) ==
    /\ ~panicked
    /\ lanes[i].uows[j].pc = "select"
    /\ lanes[i].uows[j].quit
    /\ lanes' = [lanes EXCEPT ![i].uows[j].pc = "exit"]
    /\ UNCHANGED <<parkVars, calls, tours, input, closed, notified, panicked,
                   running, built, otherVars>>

\* case v := <-queue: err := f(v.t) (park.go:535-538), and without an error
\* on to the counting block
ExecRecv(i, j) ==
    LET u == lanes[i].uows[j]
        v == Head(u.queue)
        r == Call(u.f, tours[v].t)
    IN /\ ~panicked
       /\ u.pc = "select"
       /\ u.queue # <<>>
       /\ IF u.f = "nil"
          THEN /\ panicked' = TRUE
               /\ lanes' = [lanes EXCEPT ![i].uows[j].queue = Tail(@),
                               ![i].uows[j].v = v, ![i].uows[j].pc = "call"]
               /\ UNCHANGED <<tours, succeeds, notified>>
          ELSE IF r.err # "nil"
          THEN /\ tours' = [tours EXCEPT ![v] = [t |-> r.t, err |-> r.err]]
               /\ lanes' = [lanes EXCEPT ![i].uows[j].queue = Tail(@),
                               ![i].uows[j].v = v, ![i].uows[j].pc = "errc"]
               /\ UNCHANGED <<succeeds, notified, panicked>>
          ELSE /\ tours' = [tours EXCEPT ![v].t = r.t]
               /\ lanes' = [lanes EXCEPT ![i].uows[j].queue = Tail(@),
                               ![i].uows[j].v = HeldAfterTally(u, v),
                               ![i].uows[j].pc = AfterTally(u)]
               /\ Tally(u)
       /\ UNCHANGED <<conf, status, total, failures, sc, fc, calls, input, closed,
                      running, built, otherVars>>

\* v -> errc (park.go:539-540), then the counting block
ExecErrSend(i, j) ==
    LET u == lanes[i].uows[j]
    IN /\ ~panicked
       /\ u.pc = "errc"
       /\ Len(fc) < SinkCap
       /\ fc' = Append(fc, u.v)
       /\ lanes' = [lanes EXCEPT ![i].uows[j].pc = AfterTally(u),
                       ![i].uows[j].v = HeldAfterTally(u, u.v)]
       /\ Tally(u)
       /\ UNCHANGED <<conf, status, total, failures, sc, calls, tours, input,
                      closed, running, built, otherVars>>

\* next <- v (park.go:548-550)
ExecNext(i, j) ==
    LET u == lanes[i].uows[j]
    IN /\ ~panicked
       /\ u.pc = "next"
       /\ Len(lanes[i].uows[u.next].queue) < QueueCap
       /\ lanes' = [lanes EXCEPT ![i].uows[u.next].queue = Append(@, u.v),
                       ![i].uows[j].pc = "select", ![i].uows[j].v = NoItem]
       /\ UNCHANGED <<parkVars, calls, tours, input, closed, notified, panicked,
                      running, built, otherVars>>

\* a step of some goroutine Start spawned
Routines ==
    \E i \in 1..Len(lanes) :
       \/ LaneInit(i)
       \/ LaneRecv(i)
       \/ LaneSend(i)
       \/ LaneClose(i)
       \/ \E j \in 1..Len(lanes[i].uows) :
             \/ ExecQuit(i, j)
             \/ ExecRecv(i, j)
             \/ ExecErrSend(i, j)
             \/ ExecNext(i, j)

(* ---------------------- building a configuration ---------------------- *)
\* the option values a caller hands to the builder: lane counts, stage lists
\* and listener lists below, at and above the ceilings
OptInputs ==
    {OptNumChannels(v) : v \in {0, MaxChannels, MaxChannels + 1}}
    \cup {OptFuncs(fs) : fs \in {Rep("addOne", MaxFunctions),
                                 Rep("addOne", MaxFunctions + 1)}}
    \cup {OptListeners(ls) : ls \in {Rep("L", MaxListeners),
                                     Rep("L", MaxListeners + 1)}}

OptSeqs == UNION {[1..n -> OptInputs] : n \in 0..MaxOpts}

\* a caller calls NewParkConf(optfs...) (park.go:271-286) and keeps the result
BuildConf(optfs) ==
    /\ ~panicked
    /\ LET r == NewParkConf(optfs)
       IN built' = [optfs |-> optfs, conf |-> r.conf, err |-> r.err]
    /\ UNCHANGED <<parkVars, pipeVars, running, otherVars>>

\* the caller installs the configuration it built
InstallBuilt ==
    /\ built.err = "nil"
    /\ SetConf(built.conf)

(* -------------------------- the event server -------------------------- *)
\* Park.newEventServer (options.go:450-457): the server takes the listeners of
\* the park's configuration and makes its queues
NewEventServer ==
    /\ es.pc = "none"
    /\ es' = [NoEventServer EXCEPT !.pc = "created", !.listeners = conf.listeners]
    /\ UNCHANGED <<parkAll, tourists, it, fmap, tool>>

\* go es.start(): the dispatch goroutine enters its loop (options.go:481-482)
EsStart ==
    /\ es.pc = "created"
    /\ es' = [es EXCEPT !.pc = "select"]
    /\ UNCHANGED <<parkAll, tourists, it, fmap, tool>>

\* a goroutine puts the next event on the event queue es.eq
EsSend ==
    /\ es.pc # "none"
    /\ ~es.eqClosed
    /\ Len(es.sent) < MaxEvents
    /\ Len(es.eq) < ChannelCache
    /\ es' = [es EXCEPT !.eq = Append(@, Len(es.sent) + 1),
                        !.sent = Append(@, Len(es.sent) + 1)]
    /\ UNCHANGED <<parkAll, tourists, it, fmap, tool>>

\* close(es.eq)
EsCloseEq ==
    /\ es.pc # "none"
    /\ ~es.eqClosed
    /\ es' = [es EXCEPT !.eqClosed = TRUE]
    /\ UNCHANGED <<parkAll, tourists, it, fmap, tool>>

\* close(es.eqx): the exit signal
EsExit ==
    /\ es.pc # "none"
    /\ ~es.eqx
    /\ es' = [es EXCEPT !.eqx = TRUE]
    /\ UNCHANGED <<parkAll, tourists, it, fmap, tool>>

\* case <-es.eqx: break (options.go:483-484): the break leaves the select,
\* and the for loop goes round again
EsBreak ==
    /\ es.pc = "select"
    /\ es.eqx
    /\ es' = [es EXCEPT !.exited = TRUE]
    /\ UNCHANGED <<parkAll, tourists, it, fmap, tool>>

\* case e, ok := <-es.eq (options.go:485-489): ok is not looked at, so from
\* the closed and empty queue the zero event is received; every listener is
\* called with the event.  (The log is kept up to one round past MaxEvents.)
EsRecv ==
    /\ es.pc = "select"
    /\ es.eq # <<>> \/ es.eqClosed
    /\ Len(es.log) <= MaxEvents * Len(es.listeners)
    /\ LET e == IF es.eq # <<>> THEN Head(es.eq) ELSE ZeroEvent
       IN es' = [es EXCEPT !.eq = IF es.eq # <<>> THEN Tail(@) ELSE @,
                           !.log = @ \o [k \in 1..Len(es.listeners) |-> <<e, k>>]]
    /\ UNCHANGED <<parkAll, tourists, it, fmap, tool>>

(* ------------------------------ tourists ------------------------------ *)
\* what Tourist.Reset leaves of the instance r (tourist.go:175-188); its
\* Cancel (tourist.go:167-169) returns nil, and so does Reset
TouristResetOf(r) ==
    [r EXCEPT !.entrance = "", !.status = TouristInitial, !.total = 0,
              !.finished = 0, !.workloads = NoWorkloads]

\* the map after t.workloads[s] = tr for every s of the names (tourist.go:203-208)
WithTours(w, names) ==
    [s \in DOMAIN w \cup {names[k] : k \in 1..Len(names)} |-> TourPending]

\* Tourist.Reset on the instance x
TouristReset(x) ==
    /\ tourists' = [of |-> [tourists.of EXCEPT ![x] = TouristResetOf(@)],
                    last |-> [NoCall EXCEPT !.op = "Reset", !.x = x]]
    /\ UNCHANGED <<parkAll, es, it, fmap, tool>>

\* Tourist.Enter on the instance x with a checker that returns (names, err)
\* (tourist.go:194-211).  Its first statement calls the package-level Reset
\* (tourist.go:171-173, 195), which resets the instance t, not the receiver.
TouristEnter(x, names, err) ==
    /\ LET afterReset == [tourists.of EXCEPT ![0] = TouristResetOf(@)]
       IN tourists' =
            [of |-> IF err # "nil" THEN afterReset
                    ELSE [afterReset EXCEPT
                             ![x].workloads = WithTours(@, names),
                             ![x].status = TouristCheckedIn],
             last |-> [op |-> "Enter", x |-> x, names |-> names, err |-> err,
                       ret |-> err]]
    /\ UNCHANGED <<parkAll, es, it, fmap, tool>>

\* what Tourist.SetOptions returns on the instance x (tourist.go:135-139)
TouristSetOptionsErr(x) ==
    IF tourists.of[x].status # TouristInitial THEN "Invalid State!" ELSE "nil"

\* Tourist.SetOptions (tourist.go:134-140)
TouristSetOptions(x, o) ==
    /\ tourists' =
          [of |-> IF TouristSetOptionsErr(x) = "nil"
                  THEN [tourists.of EXCEPT ![x].options = o]
                  ELSE tourists.of,
           last |-> [NoCall EXCEPT !.op = "SetOptions", !.x = x,
                                   !.ret = TouristSetOptionsErr(x)]]
    /\ UNCHANGED <<parkAll, es, it, fmap, tool>>

\* Tourist.Cancel (tourist.go:167-169)
TouristCancel(x) ==
    /\ tourists' = [tourists EXCEPT !.last = [NoCall EXCEPT !.op = "Cancel", !.x = x]]
    /\ UNCHANGED <<parkAll, es, it, fmap, tool>>

\* Tourist.Start (tourist.go:217-219)
TouristStart(x) ==
    /\ tourists' = [tourists EXCEPT !.last = [NoCall EXCEPT !.op = "Start", !.x = x]]
    /\ UNCHANGED <<parkAll, es, it, fmap, tool>>

(* --------------------------- the array iterator ----------------------- *)
\* arrayIterator.Size (part_002:43-45)
Size == Len(it.data)

\* atomic.AddInt32(e.idx, 1): the int32 wraps round
AddInt32(v) == IF v = MaxInt32 THEN -MaxInt32 - 1 ELSE v + 1

\* Next, first statement (part_002:48): the caller c adds 1 to idx
IterAdd(c) ==
    /\ it.made /\ ~it.crashed
    /\ it.callers[c].pc = "idle"
    /\ Len(it.log) + Cardinality({d \in Callers : it.callers[d].pc # "idle"}) < MaxCalls
    /\ it' = [it EXCEPT !.idx = AddInt32(@), !.callers[c].pc = "load"]
    /\ UNCHANGED <<parkAll, es, tourists, fmap, tool>>

\* x := atomic.LoadInt32(e.idx) (part_002:49)
IterLoad(c) ==
    /\ ~it.crashed
    /\ it.callers[c].pc = "load"
    /\ it' = [it EXCEPT !.callers[c].pc = "return", !.callers[c].x = it.idx]
    /\ UNCHANGED <<parkAll, es, tourists, fmap, tool>>

\* the rest of Next (part_002:50-53): EOF at or past the end, else the
\* element at x; a negative x is not past the end, and indexing with it panics
IterReturn(c) ==
    LET x == it.callers[c].x
    IN /\ ~it.crashed
       /\ it.callers[c].pc = "return"
       /\ it' = IF x >= Len(it.data)
                THEN [it EXCEPT !.callers[c] = NoCaller,
                                !.log = Append(@, <<c, ZeroElem, EOF>>)]
                ELSE IF x < 0
                THEN [it EXCEPT !.callers[c].pc = "panic", !.crashed = TRUE]
                ELSE [it EXCEPT !.callers[c] = NoCaller,
                                !.log = Append(@, <<c, it.data[x + 1], "nil">>)]
       /\ UNCHANGED <<parkAll, es, tourists, fmap, tool>>

(* --------------------------- the function map ------------------------- *)
\* int16(v)
Int16(v) == IF v > MaxInt16 THEN v - 2 * (MaxInt16 + 1) ELSE v

\* a guard that lets a registration through at the capacity
OverflowedLoose == Len(fmap.idxs) > FmapMaxFunctions

\* the guard of every registration (part_003:38)
Overflowed == Len(fmap.idxs) >= FmapMaxFunctions

\* the function a call registers: the number of the call
NewFunc == Len(fmap.idxs) + Len(fmap.rets) + 1

\* a call that returns ErrOverflowed
Refused(op) == [fmap EXCEPT !.rets = Append(@, <<op, ErrOverflowed>>)]

\* Fmap.Map (part_003:37-44)
Map ==
    /\ Len(fmap.rets) < MaxRegs
    /\ fmap' = IF Overflowed THEN Refused("Map")
               ELSE [fmap EXCEPT !.idxs = Append(@, [t |-> Func, i |-> Int16(Len(fmap.funcs))]),
                                 !.funcs = Append(@, NewFunc),
                                 !.by = Append(@, "Map"),
                                 !.rets = Append(@, <<"Map", "nil">>)]
    /\ UNCHANGED <<parkAll, es, tourists, it, tool>>

\* Fmap.Supply (part_003:46-53)
Supply ==
    /\ Len(fmap.rets) < MaxRegs
    /\ fmap' = IF Overflowed THEN Refused("Supply")
               ELSE [fmap EXCEPT !.idxs = Append(@, [t |-> Supplier, i |-> Int16(Len(fmap.suppliers))]),
                                 !.suppliers = Append(@, NewFunc),
                                 !.by = Append(@, "Supply"),
                                 !.rets = Append(@, <<"Supply", "nil">>)]
    /\ UNCHANGED <<parkAll, es, tourists, it, tool>>

\* Fmap.Consume (part_003:55-62)
Consume ==
    /\ Len(fmap.rets) < MaxRegs
    /\ fmap' = IF Overflowed THEN Refused("Consume")
               ELSE [fmap EXCEPT !.idxs = Append(@, [t |-> Consumer, i |-> Int16(Len(fmap.consumers))]),
                                 !.consumers = Append(@, NewFunc),
                                 !.by = Append(@, "Consume"),
                                 !.rets = Append(@, <<"Consume", "nil">>)]
    /\ UNCHANGED <<parkAll, es, tourists, it, tool>>

\* Fmap.Collect (part_003:64-71)
Collect ==
    /\ Len(fmap.rets) < MaxRegs
    /\ fmap' = IF Overflowed THEN Refused("Collect")
               ELSE [fmap EXCEPT !.idxs = Append(@, [t |-> Collector, i |-> Int16(Len(fmap.collectors))]),
                                 !.collectors = Append(@, NewFunc),
                                 !.by = Append(@, "Collect"),
                                 !.rets = Append(@, <<"Collect", "nil">>)]
    /\ UNCHANGED <<parkAll, es, tourists, it, tool>>

\* Fmap.ObjOp (part_003:73-80)
ObjOp ==
    /\ Len(fmap.rets) < MaxRegs
    /\ fmap' = IF Overflowed THEN Refused("ObjOp")
               ELSE [fmap EXCEPT !.idxs = Append(@, [t |-> ObjFunc, i |-> Int16(Len(fmap.ofs))]),
                                 !.ofs = Append(@, NewFunc),
                                 !.by = Append(@, "ObjOp"),
                                 !.rets = Append(@, <<"ObjOp", "nil">>)]
    /\ UNCHANGED <<parkAll, es, tourists, it, tool>>

\* Fmap.ResultOp (part_003:82-89): the index entry is tagged ObjFunc
ResultOp ==
    /\ Len(fmap.rets) < MaxRegs
    /\ fmap' = IF Overflowed THEN Refused("ResultOp")
               ELSE [fmap EXCEPT !.idxs = Append(@, [t |-> ObjFunc, i |-> Int16(Len(fmap.rfs))]),
                                 !.rfs = Append(@, NewFunc),
                                 !.by = Append(@, "ResultOp"),
                                 !.rets = Append(@, <<"ResultOp", "nil">>)]
    /\ UNCHANGED <<parkAll, es, tourists, it, tool>>

(* ----------------------------- the SM4 tool --------------------------- *)
\* sm4.Sm4Ecb of the gmsm library, which is not part of the sources.
\* Encryption pads as PKCS7 does and cannot fail with a key of 16 bytes; a
\* cipher byte is written 256 * key + padded byte, a value no plain byte and
\* no prefix digit has.  Decryption of what is no padded cipher text of the
\* key may return an error or bytes of no meaning (<<-1>>).
Pkcs7(in) ==
    LET n == BlockSize - (Len(in) % BlockSize)
    IN in \o [j \in 1..n |-> n]

Sm4Encrypt(k, in) ==
    LET p == Pkcs7(in)
    IN [j \in 1..Len(p) |-> 256 * k.id + p[j]]

Padded(k, in) ==
    /\ Len(in) > 0
    /\ Len(in) % BlockSize = 0
    /\ \A j \in 1..Len(in) : in[j] \div 256 = k.id
    /\ LET n == in[Len(in)] % 256
       IN /\ n \in 1..BlockSize
          /\ \A j \in (Len(in) - n + 1)..Len(in) : in[j] % 256 = n

Sm4Decrypt(k, in) == [j \in 1..(Len(in) - (in[Len(in)] % 256)) |-> in[j] % 256]

Sm4Ecb(k, in, mode) ==
    IF mode THEN {[o |-> Sm4Encrypt(k, in), err |-> "nil"]}
    ELSE IF Padded(k, in) THEN {[o |-> Sm4Decrypt(k, in), err |-> "nil"]}
    ELSE {[o |-> <<>>, err |-> "err"], [o |-> <<-1>>, err |-> "nil"]}

\* a run of the tool begins: flags, key and standard input (part_000:33-60)
NewRun(k, d, f, t, stream, gen) ==
    [pc |-> "main", key |-> k, decrypt |-> d, force |-> f, test |-> t,
     in |-> stream, b |-> <<>>, rl |-> 0, out |-> <<>>, rounds |-> <<>>,
     eof |-> FALSE, turn |-> 0, code |-> "", gen |-> gen]

\* the run ends: return, or log.Fatal
Exit(run, code) == [run EXCEPT !.pc = "exit", !.code = code]

\* the gate of main (part_000:105-125) after the prefix read left rl, b, in
Gate(run, rl, b, in) ==
    LET r == [run EXCEPT !.rl = rl, !.b = b, !.in = in]
        go == [r EXCEPT !.pc = "loop", !.b = Zeros(bufferSize)]
    IN IF rl = PrefixLen /\ b = Prefix(run.key)
       THEN IF run.decrypt
            THEN IF run.test THEN Exit(r, "ok") ELSE go
            ELSE IF run.test \/ ~run.force
                 THEN Exit(r, "file had already been encrypted") ELSE go
       ELSE IF run.decrypt
            THEN Exit(r, "invalid key")
            ELSE IF run.test THEN Exit(r, "ok") ELSE go

\* what r.Read(b) returns with len(b) = n: standard input is a file or a pipe
\* whose writer is done, and Read returns the bytes there are, at most n, or
\* 0 and io.EOF
ReadLen(n) == IF Len(tool.in) < n THEN Len(tool.in) ELSE n

\* main from the key check to the gate (part_000:71-125).  r.Peek returns
\* io.EOF with fewer than rl bytes, which main takes for a failure
ToolMain ==
    /\ tool.pc = "main"
    /\ IF tool.key.len # BlockSize
       THEN tool' = Exit(tool, "key length is invalid, should be 16")
       ELSE IF tool.decrypt /\ ~tool.test
       THEN LET n == ReadLen(PrefixLen)
            IN tool' = Gate(tool, n, Take(tool.in, n) \o Zeros(PrefixLen - n),
                            Drop(tool.in, n))
       ELSE IF Len(tool.in) < PrefixLen
            THEN tool' = Exit(tool, "failed to read")
            ELSE tool' = Gate(tool, PrefixLen, Take(tool.in, PrefixLen), tool.in)
    /\ UNCHANGED <<parkAll, es, tourists, it, fmap>>

\* one iteration of the loop (part_000:136-160): read, transform, write.
\* out keeps the first MaxOut bytes written and rounds the first MaxRounds
\* iterations: [read, arg], the bytes read and the bytes given to Sm4Ecb;
\* turn is the parity of the iterations made
ToolRound ==
    /\ tool.pc = "loop"
    /\ LET n == ReadLen(bufferSize)
           b == Take(tool.in, n) \o Drop(tool.b, n)
           arg == IF tool.decrypt THEN Take(b, n) ELSE Drop(b, n)
           round == [read |-> Take(b, n), arg |-> arg]
           read == [tool EXCEPT !.rl = n, !.b = b, !.in = Drop(tool.in, n),
                                !.eof = (n = 0), !.turn = 1 - @,
                                !.rounds = IF Len(@) < MaxRounds
                                           THEN Append(@, round) ELSE @]
       IN \E r \in Sm4Ecb(tool.key, arg, ~tool.decrypt) :
             LET o == tool.out \o r.o
             IN tool' = IF r.err # "nil"
                        THEN Exit(read, IF tool.decrypt THEN "failed to decrypt"
                                                        ELSE "failed to encrypt")
                        ELSE [read EXCEPT !.out =
                                 Take(o, IF Len(o) < MaxOut THEN Len(o) ELSE MaxOut)]
    /\ UNCHANGED <<parkAll, es, tourists, it, fmap>>

\* what a run in encrypt mode has written is given to a second run with the
\* same key, without --force
ToolAgain ==
    /\ tool.pc \in {"loop", "exit"}
    /\ tool.gen = 0
    /\ ~tool.decrypt /\ ~tool.test
    /\ tool.out # <<>>
    /\ \E d, t \in BOOLEAN : tool' = NewRun(tool.key, d, FALSE, t, tool.out, 1)
    /\ UNCHANGED <<parkAll, es, tourists, it, fmap>>

(* --------------------------- specifications --------------------------- *)
\* the park from New on, under any calls of its caller
Next ==
    \/ \E c \in LifeConfs : SetConf(c)
    \/ \E n \in Totals : SetTotal(n)
    \/ Start
    \/ Cancel
    \/ Reset
    \/ CloseInput
    \/ \E i \in 1..Len(lanes) : LaneInit(i)
    \/ \E i \in 1..Len(lanes) : LaneRecv(i)
    \/ \E i \in 1..Len(lanes) : LaneSend(i)
    \/ \E i \in 1..Len(lanes) : LaneClose(i)
    \/ \E i \in 1..Len(lanes) : \E j \in 1..Len(lanes[i].uows) : ExecQuit(i, j)
    \/ \E i \in 1..Len(lanes) : \E j \in 1..Len(lanes[i].uows) : ExecRecv(i, j)
    \/ \E i \in 1..Len(lanes) : \E j \in 1..Len(lanes[i].uows) : ExecErrSend(i, j)
    \/ \E i \in 1..Len(lanes) : \E j \in 1..Len(lanes[i].uows) : ExecNext(i, j)

Spec == Init /\ [][Next]_vars

\* one run: a configured park is started once, the producer submits its
\* items and closes the data channel; nobody cancels or resets
StartOnce == calls = <<>> /\ Start

NextRun ==
    \/ StartOnce
    \/ CloseInput
    \/ \E i \in 1..Len(lanes) : LaneInit(i)
    \/ \E i \in 1..Len(lanes) : LaneRecv(i)
    \/ \E i \in 1..Len(lanes) : LaneSend(i)
    \/ \E i \in 1..Len(lanes) : LaneClose(i)
    \/ \E i \in 1..Len(lanes) : \E j \in 1..Len(lanes[i].uows) : ExecQuit(i, j)
    \/ \E i \in 1..Len(lanes) : \E j \in 1..Len(lanes[i].uows) : ExecRecv(i, j)
    \/ \E i \in 1..Len(lanes) : \E j \in 1..Len(lanes[i].uows) : ExecErrSend(i, j)
    \/ \E i \in 1..Len(lanes) : \E j \in 1..Len(lanes[i].uows) : ExecNext(i, j)

SpecRun == InitRun /\ [][NextRun]_vars

\* one run that its caller may cancel
CancelRun == running /\ Cancel

NextCancel ==
    \/ StartOnce
    \/ CancelRun
    \/ CloseInput
    \/ \E i \in 1..Len(lanes) : LaneInit(i)
    \/ \E i \in 1..Len(lanes) : LaneRecv(i)
    \/ \E i \in 1..Len(lanes) : LaneSend(i)
    \/ \E i \in 1..Len(lanes) : LaneClose(i)
    \/ \E i \in 1..Len(lanes) : \E j \in 1..Len(lanes[i].uows) : ExecQuit(i, j)
    \/ \E i \in 1..Len(lanes) : \E j \in 1..Len(lanes[i].uows) : ExecRecv(i, j)
    \/ \E i \in 1..Len(lanes) : \E j \in 1..Len(lanes[i].uows) : ExecErrSend(i, j)
    \/ \E i \in 1..Len(lanes) : \E j \in 1..Len(lanes[i].uows) : ExecNext(i, j)

\* the Go scheduler runs every goroutine that can take a step; the caller
\* and the producer are under no obligation
FairSpec == InitRun /\ [][NextCancel]_vars /\ WF_vars(Routines)

\* the run of the specification's scenario: 2 lanes, the stages double,
\* addOne, failIfOver 20, the input 1, 2, 3, 11 and a total of 4
ScenarioConf ==
    NewParkConf(<<OptNumChannels(2),
                  OptFuncs(<<"double", "addOne", "failIfOver">>),
                  OptListeners(<<"L">>)>>).conf

ScenarioInput == <<1, 2, 3, 11>>

InitScenario ==
    /\ Idle
    /\ closed = FALSE
    /\ input = [i \in 1..Len(ScenarioInput) |-> i]
    /\ tours = [i \in 1..Len(ScenarioInput) |-> [t |-> ScenarioInput[i], err |-> "nil"]]
    /\ Park(ScenarioConf, Len(ScenarioInput))

SpecScenario == InitScenario /\ [][NextRun]_vars

\* a run that fans out: up to MaxLanes lanes of two stages share the data
\* channel, and every item fails at the first stage and is passed on
InitFan ==
    /\ Idle
    /\ closed = FALSE
    /\ \E k \in 0..MaxItems :
          /\ input = [i \in 1..k |-> i]
          /\ tours = [i \in 1..k |-> [t |-> 21, err |-> "nil"]]
    /\ \E c \in Confs(MaxLanes, {<<"failIfOver", "addOne">>}) : Park(c, -1)

SpecFan == InitFan /\ [][NextRun]_vars

\* a caller builds configurations and installs them in a park not yet started
InitConf ==
    /\ Idle
    /\ closed = FALSE
    /\ input = <<>>
    /\ tours = <<>>
    /\ Park(NewParkConf(<<>>).conf, -1)

NextConf ==
    \/ \E optfs \in OptSeqs : BuildConf(optfs)
    \/ InstallBuilt

SpecConf == InitConf /\ [][NextConf]_vars

\* the methods as functions of their receiver: a Park value whose status is
\* any value of the Status type and whose counters hold any count, with no
\* goroutine running, under calls of SetConf, SetTotal, Cancel and Reset.
\* (No statement of this revision assigns Open, Paused or Closed to the
\* status or adds to failures; the methods branch on these values.)
InitAnyPark ==
    /\ Idle
    /\ closed = FALSE
    /\ input = <<>>
    /\ tours = <<>>
    /\ conf = NewParkConf(<<>>).conf
    /\ status \in Statuses
    /\ total \in -1..MaxCount
    /\ succeeds \in 0..MaxCount
    /\ failures \in 0..MaxCount
    /\ sc = <<>>
    /\ fc = <<>>
    /\ calls = <<>>
    /\ lanes = <<>>
    /\ notified = 0
    /\ panicked = FALSE
    /\ running = FALSE
    /\ built = [optfs |-> <<>>, conf |-> NewParkConf(<<>>).conf, err |-> "nil"]

NextCalls ==
    \/ \E c \in LifeConfs : SetConf(c)
    \/ \E n \in -1..MaxCount : SetTotal(n)
    \/ Cancel
    \/ Reset

SpecAnyPark == InitAnyPark /\ [][NextCalls]_vars

\* a run that fills the queues: one lane of two stages; every item passes
\* the first stage and fails at the second, which sends it to the failure
\* channel, and nobody receives from that channel
InitFlood ==
    /\ Idle
    /\ closed = FALSE
    /\ \E k \in 0..FloodItems :
          /\ input = [i \in 1..k |-> i]
          /\ tours = [i \in 1..k |-> [t |-> 20, err |-> "nil"]]
    /\ Park(NewParkConf(<<OptNumChannels(1),
                          OptFuncs(<<"addOne", "failIfOver">>),
                          OptListeners(<<"L">>)>>).conf, -1)

SpecFlood == InitFlood /\ [][NextRun]_vars

\* the same run under the Go scheduler
FairFlood == InitFlood /\ [][NextRun]_vars /\ WF_vars(Routines)

\* a run with a listener that returns and one that never does
InitListen ==
    /\ Idle
    /\ Producer(MaxItems)
    /\ \E n \in 1..MaxLanes :
          Park(NewParkConf(<<OptNumChannels(n),
                             OptFuncs(<<"failIfOver", "addOne">>),
                             OptListeners(<<"L", "B">>)>>).conf, -1)

SpecListen == InitListen /\ [][NextRun]_vars

\* one goroutine calls Next on an iterator over a slice of at most MaxData
\* elements, again and again.  The calls followed are the first MaxCalls, or
\* the MaxCalls after the first MaxInt32 calls: those left idx at MaxInt32 - 1.
Elems == {"x", "y"}
Slices == UNION {[1..n -> Elems] : n \in 0..MaxData}

InitIter ==
    /\ closed = FALSE
    /\ input = <<>>
    /\ tours = <<>>
    /\ Park(NewParkConf(<<>>).conf, -1)
    /\ es = NoEventServer
    /\ tourists = NewTourists
    /\ fmap = NewFmap
    /\ tool = NoTool
    /\ \E data \in Slices : \E k \in {0, MaxInt32} :
          it = [NewArrayIterator(data) EXCEPT !.idx = k - 1, !.base = k]

NextIter ==
    \/ IterAdd(1)
    \/ IterLoad(1)
    \/ IterReturn(1)

SpecIter == InitIter /\ [][NextIter]_vars

\* MaxCallers goroutines call Next on one new iterator over a slice whose
\* elements differ, so that a returned value names its position
InitShared ==
    /\ closed = FALSE
    /\ input = <<>>
    /\ tours = <<>>
    /\ Park(NewParkConf(<<>>).conf, -1)
    /\ es = NoEventServer
    /\ tourists = NewTourists
    /\ fmap = NewFmap
    /\ tool = NoTool
    /\ \E data \in Slices :
          /\ \A i, j \in 1..Len(data) : data[i] = data[j] => i = j
          /\ it = NewArrayIterator(data)

NextShared ==
    \E c \in Callers :
        \/ IterAdd(c)
        \/ IterLoad(c)
        \/ IterReturn(c)

SpecShared == InitShared /\ [][NextShared]_vars

\* any MaxRegs registrations on a function map that is new, or that Map has
\* filled up to two entries below its capacity
MapFilled(k) ==
    [NewFmap EXCEPT !.funcs = [j \in 1..k |-> j],
                    !.idxs = [j \in 1..k |-> [t |-> Func, i |-> Int16(j - 1)]],
                    !.by = [j \in 1..k |-> "Map"]]

InitFmap ==
    /\ closed = FALSE
    /\ input = <<>>
    /\ tours = <<>>
    /\ Park(NewParkConf(<<>>).conf, -1)
    /\ es = NoEventServer
    /\ tourists = NewTourists
    /\ it = NoIterator
    /\ tool = NoTool
    /\ \E k \in {0, FmapMaxFunctions - 2} : fmap = MapFilled(k)

NextFmap ==
    \/ Map
    \/ Supply
    \/ Consume
    \/ Collect
    \/ ObjOp
    \/ ResultOp

SpecFmap == InitFmap /\ [][NextFmap]_vars

\* runs of the SM4 tool with any flags and key, on short inputs, on plain
\* inputs of 64 bytes and more, on inputs that begin with a key's prefix and
\* on encrypted inputs as the decrypt path asks for them
Tails == {[j \in 1..n |-> 65] : n \in 0..MaxTail}
Streams ==
    Tails
    \cup {[j \in 1..PrefixLen |-> 65] \o t : t \in Tails}
    \cup {Prefix(k) \o t : k \in Keys, t \in Tails}
    \cup {Prefix(k) \o Sm4Encrypt(k, t) : k \in Keys, t \in Tails}

InitTool ==
    /\ closed = FALSE
    /\ input = <<>>
    /\ tours = <<>>
    /\ Park(NewParkConf(<<>>).conf, -1)
    /\ es = NoEventServer
    /\ tourists = NewTourists
    /\ it = NoIterator
    /\ fmap = NewFmap
    /\ \E k \in Keys, d, f, t \in BOOLEAN, stream \in Streams :
          tool = NewRun(k, d, f, t, stream, 0)

NextTool ==
    \/ ToolMain
    \/ ToolRound
    \/ ToolAgain

SpecTool == InitTool /\ [][NextTool]_vars

\* the tool is scheduled as long as it can step
FairTool == SpecTool /\ WF_vars(ToolMain) /\ WF_vars(ToolRound)

\* the Tourist instances under any calls, with checkers that return a list of
\* names or an error
Names == {"a", "b"}
CheckResults == UNION {[1..n -> Names] : n \in 0..MaxNames}

InitTourists ==
    /\ closed = FALSE
    /\ input = <<>>
    /\ tours = <<>>
    /\ Park(NewParkConf(<<>>).conf, -1)
    /\ Idle

NextTourists ==
    \/ \E x \in Instances : \E names \in CheckResults :
          \E err \in {"nil", "ErrCheck"} : TouristEnter(x, names, err)
    \/ \E x \in Instances : TouristReset(x)
    \/ \E x \in Instances : \E v \in {1, 2} : TouristSetOptions(x, NewTouristOptions(v))
    \/ \E x \in Instances : TouristCancel(x)
    \/ \E x \in Instances : TouristStart(x)

SpecTourists == InitTourists /\ [][NextTourists]_vars

\* an event server with listeners that return, under senders of events and
\* the closing of its queue and of its exit channel
EsConfs ==
    {NewParkConf(<<OptListeners(ls)>>).conf : ls \in {<<"L">>, <<"L", "L">>}}

InitEvents ==
    /\ closed = FALSE
    /\ input = <<>>
    /\ tours = <<>>
    /\ \E c \in EsConfs : Park(c, -1)
    /\ Idle

NextEvents ==
    \/ NewEventServer
    \/ EsStart
    \/ EsSend
    \/ EsCloseEq
    \/ EsExit
    \/ EsBreak
    \/ EsRecv

SpecEvents == InitEvents /\ [][NextEvents]_vars

(* ------------------------------ the claims ---------------------------- *)
\* how often the item k occurs in the channel buffer q
Count(q, k) == Cardinality({m \in 1..Len(q) : q[m] = k})

\* the run is over: the data channel is closed and empty, every lane has
\* returned and every stage executor has returned
Drained ==
    /\ calls # <<>>
    /\ ~panicked
    /\ input = <<>>
    /\ closed
    /\ \A i \in 1..Len(lanes) :
          /\ lanes[i].pc = "done"
          /\ \A j \in 1..Len(lanes[i].uows) : lanes[i].uows[j].pc = "exit"

\* no goroutine that Start spawned is left
AllExited ==
    \/ panicked
    \/ \A i \in 1..Len(lanes) :
          /\ lanes[i].pc = "done"
          /\ \A j \in 1..Len(lanes[i].uows) : lanes[i].uows[j].pc = "exit"

\* C1: no loss: once a run fed by a gracefully closed input is over, every
\* submitted item is in the success and failure sinks together exactly once
NoLoss ==
    Drained => \A k \in DOMAIN tours : Count(sc, k) + Count(fc, k) = 1

\* C2: after Start, a call of SetConf returns the invalid-state error and
\* leaves the configuration as it is
ConfigureGuard ==
    [][(running /\ \E c \in LifeConfs : SetConf(c))
          => (SetConfErr = ErrState /\ conf' = conf)]_vars

\* C3: a Start while the status is not Initial, or a second Start without a
\* Reset in between, fails and spawns no lane
StartGuard ==
    [][((status # ParkInitial \/ running) /\ Start)
          => (lanes' = lanes /\ calls' = calls)]_vars

\* C4: Start moves the status from Initial to Open, and no lane takes an item
\* from the data channel while the status is still Initial
StartOpens ==
    [][/\ (Start /\ status = ParkInitial) => status' = ParkOpen
       /\ (\E i \in 1..Len(lanes) : LaneRecv(i)) => status # ParkInitial]_vars

\* C5: every Start call returns to its caller
StartTerminates ==
    (calls # <<>>) ~> (calls # <<>> /\ calls[1].pc = "returned")

\* C6: after Cancel on a started park the status is Aborted and every
\* goroutine that Start spawned eventually exits
CancelTerminates ==
    /\ [][CancelRun => status' = ParkAborted]_vars
    /\ (running /\ status = ParkAborted) ~> AllExited

\* C7: when the total is known and the run is over, succeeded + failed is
\* the number of submitted items
CounterConsistency ==
    (Drained /\ total # -1) => succeeds + failures = total

\* C8: in a run, succeeded + failed never exceeds a known total and never
\* decreases
CounterInvariant ==
    [][/\ total' # -1 => succeeds' + failures' <= total'
       /\ succeeds' + failures' >= succeeds + failures]_vars

\* C9: the scenario ends with the results 3, 5 and 7 in the success sink, the
\* item of input 11 with its error in the failure sink, succeeded = 3 and
\* failed = 1
ScenarioOutcome ==
    Drained =>
       /\ Len(sc) = 3
       /\ {tours[sc[m]].t : m \in 1..Len(sc)} = {3, 5, 7}
       /\ fc = <<4>>
       /\ tours[4].err # "nil"
       /\ succeeds = 3
       /\ failures = 1

\* an option above its ceiling
OverCeiling(o) ==
    \/ o.opt = "NumChannels" /\ o.n > MaxChannels
    \/ o.opt = "Funcs" /\ Len(o.list) > MaxFunctions
    \/ o.opt = "Listeners" /\ Len(o.list) > MaxListeners

\* C10: a NewParkConf call with more than MaxChannels lanes, more than
\* MaxFunctions stages or more than MaxListeners listeners returns the limit
\* error and no configuration, and the park's configuration stays as it was
CapacityGuard ==
    [][(built' # built /\ \E k \in 1..Len(built'.optfs) : OverCeiling(built'.optfs[k]))
          => (built'.err = ErrLimited /\ built'.conf = NoConf /\ conf' = conf)]_vars

\* C10 happens: a park holds a configuration that was built and installed,
\* and a later build, whose first option was accepted, failed on a ceiling
CapacityGuardWitness ==
    /\ conf # NewParkConf(<<>>).conf
    /\ Len(built.optfs) = 2
    /\ ~OverCeiling(built.optfs[1])
    /\ OverCeiling(built.optfs[2])
    /\ built.err = ErrLimited

\* C11: every configuration the builder accepts has a lane count in
\* 1..MaxChannels, and a build that requests a lane count of 0 or less fails
\* with the limit error
LaneCountLowerBound ==
    /\ built.err = "nil" => built.conf.numChans \in 1..MaxChannels
    /\ (\E k \in 1..Len(built.optfs) :
           built.optfs[k].opt = "NumChannels" /\ built.optfs[k].n <= 0)
          => built.err = ErrLimited

Held(i) ==
    ({lanes[i].v}
     \cup UNION {{lanes[i].uows[j].v} \cup
                   {lanes[i].uows[j].queue[m] : m \in 1..Len(lanes[i].uows[j].queue)} :
                 j \in 1..Len(lanes[i].uows)})
    \ {NoItem}

\* C14: once the input is closed and every lane has drained, the status
\* becomes Closed; and the status is never Closed while a lane holds an item
GracefulShutdown ==
    /\ Drained ~> (status = ParkClosed)
    /\ [](status = ParkClosed => \A i \in 1..Len(lanes) : Held(i) = {})

\* the transitions of the status the specification lists
StatusEdges ==
    {<<ParkInitial, ParkOpen>>, <<ParkOpen, ParkPaused>>, <<ParkPaused, ParkOpen>>,
     <<ParkOpen, ParkAborted>>, <<ParkPaused, ParkAborted>>,
     <<ParkOpen, ParkClosed>>, <<ParkPaused, ParkClosed>>,
     <<ParkPaused, ParkInitial>>, <<ParkClosed, ParkInitial>>,
     <<ParkAborted, ParkInitial>>}

\* C15: every change of the status is one of the listed transitions; a Cancel
\* while the status is Initial or Closed does not make it Aborted
StatusMachine ==
    [][/\ status' # status => <<status, status'>> \in StatusEdges
       /\ (Cancel /\ status \in {ParkInitial, ParkClosed}) => status' # ParkAborted]_vars

\* C16: while the status is not Initial, SetConf and SetTotal return an error
\* and leave the configuration and the total as they were; while it is
\* Initial they store the given value and return no error
FrozenConf ==
    /\ [](status # ParkInitial => SetConfErr # "nil" /\ SetTotalErr # "nil")
    /\ [](status = ParkInitial => SetConfErr = "nil" /\ SetTotalErr = "nil")
    /\ [][IF status # ParkInitial
          THEN conf' = conf /\ (total' = total \/ Reset)
          ELSE /\ \A c \in LifeConfs : SetConf(c) => conf' = c
               /\ \A n \in Totals : SetTotal(n) => total' = n]_vars

\* C16 happens: SetConf and SetTotal stored their values while the status was
\* Initial, and the park has left Initial with both still in place
FrozenConfWitness ==
    /\ status # ParkInitial
    /\ conf \in LifeConfs
    /\ conf # NewParkConf(<<>>).conf
    /\ total # -1

\* C17: a stage function is invoked only on an item for which no earlier
\* stage has returned an error
ShortCircuit ==
    [][\A i \in 1..Len(lanes) : \A j \in 1..Len(lanes[i].uows) :
          ExecRecv(i, j) => tours[Head(lanes[i].uows[j].queue)].err = "nil"]_vars

\* the item k has reached a sink
Reached(k) == Count(sc, k) + Count(fc, k) > 0

\* how far the item k, held by the lane i, has come: with the lane's goroutine,
\* at the place m of the queue of stage j, or in the hands of stage j
Rank(i, k) ==
    IF lanes[i].v = k THEN 0
    ELSE LET j == CHOOSE n \in 1..Len(lanes[i].uows) :
                     \/ lanes[i].uows[n].v = k
                     \/ \E m \in 1..Len(lanes[i].uows[n].queue) :
                           lanes[i].uows[n].queue[m] = k
             u == lanes[i].uows[j]
         IN IF u.v = k THEN j * (QueueCap + 2)
            ELSE j * (QueueCap + 2) - (CHOOSE m \in 1..Len(u.queue) : u.queue[m] = k)

\* the items of a lane keep the order in which the lane accepted them
StageOrder ==
    \A i \in 1..Len(lanes) : \A a \in Held(i) : \A b \in Held(i) :
       a < b => Rank(i, a) > Rank(i, b)

\* C18: of two items in one lane, the one accepted first is ahead of the other
\* at every stage and reaches its sink before the other does
FifoPerLane ==
    /\ StageOrder
    /\ \A i \in 1..Len(lanes) : \A a \in Held(i) : \A b \in Held(i) :
          (a < b /\ Reached(b)) => Reached(a)

\* C19: an item is held by at most one lane, and an item a lane has taken is
\* no longer in the data channel
SingleDelivery ==
    \A k \in DOMAIN tours :
       /\ Cardinality({i \in 1..Len(lanes) : k \in Held(i)}) <= 1
       /\ (\E i \in 1..Len(lanes) : k \in Held(i))
             => \A m \in 1..Len(input) : input[m] # k

\* C19 happens: two lanes hold an item each at the same time
SingleDeliveryWitness ==
    \E i \in 1..Len(lanes) : \E j \in 1..Len(lanes) :
       i # j /\ Held(i) # {} /\ Held(j) # {}

\* C20: the counters go up by one, and every listener is called once, when an
\* item leaves the last stage without an error or is sent to the failure sink
\* for the first time, and at no other step of a stage executor
ExactlyOnce ==
    [][\A i \in 1..Len(lanes) : \A j \in 1..Len(lanes[i].uows) :
          LET u == lanes[i].uows[j]
              d == (succeeds' + failures') - (succeeds + failures)
              n == notified' - notified
          IN /\ (ExecRecv(i, j) /\ u.f # "nil") =>
                   /\ d = IF u.next = 0 /\ tours'[Head(u.queue)].err = "nil"
                          THEN 1 ELSE 0
                   /\ ~panicked' => n = d * Len(conf.listeners)
             /\ ExecErrSend(i, j) =>
                   /\ d = IF Count(fc, u.v) = 0 THEN 1 ELSE 0
                   /\ ~panicked' => n = d * Len(conf.listeners)]_vars

\* C24: the listeners are called with the events in the order the events
\* entered the queue, every listener once for every event and with nothing
\* else, and once the dispatch loop has seen the exit signal no listener is
\* called any more
EventDispatch ==
    /\ [](/\ Len(es.log) <= Len(es.sent) * Len(es.listeners)
          /\ \A p \in 1..Len(es.log) :
                es.log[p] = <<es.sent[((p - 1) \div Len(es.listeners)) + 1],
                              ((p - 1) % Len(es.listeners)) + 1>>)
    /\ [][es.exited => es'.log = es.log]_vars

\* C21: an item whose stage function returned an error has the error
\* attached and goes to the failure sink only: the step that sends it there
\* does not pass it on to the next stage and does not count it as succeeded,
\* and it is never in the success sink
ErrorRouting ==
    [][\A i \in 1..Len(lanes) : \A j \in 1..Len(lanes[i].uows) :
          ExecErrSend(i, j) =>
             /\ tours[lanes[i].uows[j].v].err # "nil"
             /\ Count(fc', lanes[i].uows[j].v) = 1
             /\ Count(sc', lanes[i].uows[j].v) = 0
             /\ lanes'[i].uows[j].pc # "next"
             /\ succeeds' = succeeds]_vars

\* C22: a stage executor that has returned on its quit signal has left no
\* item in its queue that has not reached a sink
DrainOnQuit ==
    \A i \in 1..Len(lanes) : \A j \in 1..Len(lanes[i].uows) :
       lanes[i].uows[j].pc = "exit" =>
          \A m \in 1..Len(lanes[i].uows[j].queue) : Reached(lanes[i].uows[j].queue[m])

\* C23: no listener is called in a step of a stage executor, and no stage
\* executor waits for a listener to return
ListenerIsolation ==
    /\ [][notified' # notified =>
            ~\E i \in 1..Len(lanes) : \E j \in 1..Len(lanes[i].uows) :
                ExecRecv(i, j) \/ ExecErrSend(i, j)]_vars
    /\ [](\A i \in 1..Len(lanes) : \A j \in 1..Len(lanes[i].uows) :
             lanes[i].uows[j].pc # "listener")

\* C27: with no stage configured, every item taken from the data channel is
\* in the success sink once and counted once
ZeroStage ==
    Len(conf.funcs) = 0 =>
       /\ \A k \in DOMAIN tours :
             (\A m \in 1..Len(input) : input[m] # k) => Count(sc, k) = 1
       /\ calls # <<>> => succeeds = Len(tours) - Len(input)

\* the items a lane of two stages holds, those that came first first
Line(i) ==
    (IF Len(lanes[i].uows) = 2
     THEN <<lanes[i].uows[2].v>> \o lanes[i].uows[2].queue
          \o <<lanes[i].uows[1].v>> \o lanes[i].uows[1].queue
     ELSE <<>>)
    \o <<lanes[i].v>>

IsItem(x) == x # NoItem

\* C25: no stage queue holds more than QueueCap items, and no send drops or
\* duplicates an item: the items in the failure sink, those the lane and its
\* stages hold or have queued, and those still in the data channel are the
\* submitted items, each once and in their order
Backpressure ==
    /\ \A i \in 1..Len(lanes) : \A j \in 1..Len(lanes[i].uows) :
          Len(lanes[i].uows[j].queue) <= QueueCap
    /\ SelectSeq(fc \o (IF lanes = <<>> THEN <<>> ELSE Line(1)) \o input, IsItem)
          = [k \in 1..Len(tours) |-> k]

\* C25 happens: both queues are full, the first stage waits to send to the
\* second and the lane waits to send to the first
BackpressureWitness ==
    /\ lanes # <<>>
    /\ lanes[1].pc = "send"
    /\ Len(lanes[1].uows) = 2
    /\ Len(lanes[1].uows[1].queue) = QueueCap
    /\ lanes[1].uows[1].pc = "next"
    /\ Len(lanes[1].uows[2].queue) = QueueCap

\* C26: once the data channel is closed, the lane and every stage executor
\* of it return
TeardownTerminates == closed ~> AllExited

\* C28: after an Enter that returned no error the instance is CheckedIn, its
\* workloads are exactly the names the checker returned, each Pending, and
\* finished is 0; an Enter whose checker failed returned that error and the
\* instance is not CheckedIn
EnterPost ==
    LET l == tourists.last
        r == tourists.of[l.x]
    IN l.op = "Enter" =>
          IF l.err = "nil"
          THEN /\ l.ret = "nil"
               /\ r.status = TouristCheckedIn
               /\ DOMAIN r.workloads = {l.names[k] : k \in 1..Len(l.names)}
               /\ \A s \in DOMAIN r.workloads : r.workloads[s] = TourPending
               /\ r.finished = 0
          ELSE /\ l.ret = l.err
               /\ r.status # TouristCheckedIn

\* C29: a call on one instance changes the state of no other instance
InstanceIsolation ==
    [][\A y \in Instances :
          tourists'.of[y] # tourists.of[y] => y = tourists'.last.x]_vars

\* C30: used by one goroutine, the first n calls of Next on a slice of n
\* elements return the elements in index order with a nil error, every later
\* call returns the zero value and EOF, and Size is n
SequentialNext ==
    /\ ~it.crashed
    /\ Size = Len(it.data)
    /\ \A p \in 1..Len(it.log) :
          IF p <= Len(it.data) - it.base
          THEN it.log[p] = <<1, it.data[it.base + p], "nil">>
          ELSE it.log[p] = <<1, ZeroElem, EOF>>

\* the calls of Next that returned the element at position i
Returned(i) ==
    {p \in 1..Len(it.log) : it.log[p][2] = it.data[i] /\ it.log[p][3] = "nil"}

\* C31: with several goroutines calling Next on one iterator, no element is
\* returned twice, and once a call has returned EOF and no call is under way
\* every element has been returned, to one caller
SharedNext ==
    /\ \A i \in 1..Len(it.data) : Cardinality(Returned(i)) <= 1
    /\ (/\ \E p \in 1..Len(it.log) : it.log[p][3] = EOF
        /\ \A c \in Callers : it.callers[c].pc = "idle")
          => \A i \in 1..Len(it.data) : Cardinality(Returned(i)) = 1

\* the functions a map holds, over its six slices
Functions(m) ==
    Len(m.funcs) + Len(m.suppliers) + Len(m.consumers) + Len(m.collectors)
        + Len(m.ofs) + Len(m.rfs)

\* the six slices and the index of a map
Slots(m) == <<m.funcs, m.suppliers, m.consumers, m.collectors, m.ofs, m.rfs, m.idxs>>

\* C32: the index of a function map never has more than 1024 entries; a
\* registration with 1024 entries returns ErrOverflowed and changes neither
\* the index nor a slice; any other adds one index entry and one function
FmapCapacity ==
    /\ [](Len(fmap.idxs) <= FmapMaxFunctions)
    /\ [][fmap'.rets # fmap.rets =>
            IF Len(fmap.idxs) = FmapMaxFunctions
            THEN /\ fmap'.rets[Len(fmap'.rets)][2] = ErrOverflowed
                 /\ Slots(fmap') = Slots(fmap)
            ELSE /\ fmap'.rets[Len(fmap'.rets)][2] = "nil"
                 /\ Len(fmap'.idxs) = Len(fmap.idxs) + 1
                 /\ Functions(fmap') = Functions(fmap) + 1
                 /\ \E q \in 1..6 : /\ Len(Slots(fmap')[q]) = Len(Slots(fmap)[q]) + 1
                                     /\ SubSeq(Slots(fmap')[q], 1, Len(Slots(fmap)[q]))
                                           = Slots(fmap)[q]]_vars

FmapCapacityWitness ==
    /\ Len(fmap.idxs) = FmapMaxFunctions
    /\ \E p \in 1..Len(fmap.rets) : fmap.rets[p][2] = ErrOverflowed
    /\ \E p \in 1..Len(fmap.rets) : fmap.rets[p][2] = "nil"

\* the kind each operation registers, and the slice that holds each kind
KindOf(op) ==
    CASE op = "Map" -> Func
      [] op = "Supply" -> Supplier
      [] op = "Consume" -> Consumer
      [] op = "Collect" -> Collector
      [] op = "ObjOp" -> ObjFunc
      [] op = "ResultOp" -> ResultFunc

SliceOf(m, t) ==
    CASE t = Func -> m.funcs
      [] t = Supplier -> m.suppliers
      [] t = Consumer -> m.consumers
      [] t = Collector -> m.collectors
      [] t = ObjFunc -> m.ofs
      [] t = ResultFunc -> m.rfs

\* the function the k-th index entry leads to, 0 if it leads to none
Indexed(k) ==
    LET e == fmap.idxs[k]
        q == SliceOf(fmap, e.t)
    IN IF e.i >= 0 /\ e.i < Len(q) THEN q[e.i + 1] ELSE 0

\* C33: every index entry carries the kind of the operation that made it and
\* a valid position of that kind's slice, where the function registered is,
\* and the index lists the registrations in call order
IndexConsistent ==
    /\ \A k \in 1..Len(fmap.idxs) :
          /\ fmap.idxs[k].t = KindOf(fmap.by[k])
          /\ Indexed(k) # 0
    /\ \A k \in 1..Len(fmap.idxs) - 1 : Indexed(k) < Indexed(k + 1)

\* C34: in every iteration of its loop the tool transforms the bytes it read
\* in that iteration, and after the end of the input the loop stops and the
\* program exits
ToolTerminates ==
    /\ [](tool.pc \in {"loop", "exit"} =>
             \A j \in 1..Len(tool.rounds) : tool.rounds[j].arg = tool.rounds[j].read)
    /\ []((tool.pc = "loop" /\ tool.gen = 1) => <>(tool.pc = "exit"))
    /\ []((tool.pc = "loop" /\ tool.gen = 0) => <>(tool.pc = "exit" \/ tool.gen = 1))

\* C35: what encrypt mode writes begins with the prefix of its key: decrypt
\* mode with the same key does not reject it as an invalid key, and encrypt
\* mode without --force rejects it as already encrypted
RoundTrip ==
    /\ (tool.pc \in {"loop", "exit"} /\ tool.gen = 0 /\ ~tool.decrypt /\ tool.out # <<>>)
          => (Len(tool.out) >= PrefixLen /\ Take(tool.out, PrefixLen) = Prefix(tool.key))
    /\ (tool.pc = "exit" /\ tool.gen = 1 /\ tool.decrypt)
          => tool.code # "invalid key"
    /\ (tool.pc \in {"loop", "exit"} /\ tool.gen = 1 /\ ~tool.decrypt)
          => (tool.pc = "exit" /\ tool.code = "file had already been encrypted")

====
